---- MODULE Spec2Model ----
(***************************************************************************)
(* Local Prompt Manager: the database session (DatabaseService), the      *)
(* remembered handle (StorageService), the Loader's load actions and the  *)
(* Main component's save action, as one state machine.                    *)
(*                                                                         *)
(* Two specifications share the variables:                                 *)
(*   SpecSession  DatabaseService used as a library, one call at a time    *)
(*                (init, export and the entity operations);                *)
(*   Spec         the application: every async handler of Loader.tsx and   *)
(*                Main is split at its awaits, and the handlers that the   *)
(*                rendered page lets start may interleave.                 *)
(***************************************************************************)
EXTENDS Integers, Sequences, FiniteSets, TLC

VARIABLES
    db,          \* DatabaseService.db: the engine instance, or NoDb (null)
    fileHandle,  \* DatabaseService.fileHandle: a handle, or NoHandle (null)
    engines,     \* number of engine instances created and never close()d
    clock,       \* the engine's clock, datetime('now'), in seconds
    last,        \* the last DatabaseService call and how it ended
    calls,       \* number of engine-changing calls and clock ticks so far
    cache,       \* IndexedDB 'handles' store, key 'db_handle'
    idb,         \* availability of IndexedDB: "ok" or "down"
    disk,        \* content of the file behind each handle
    perm,        \* readwrite permission state of each handle
    dbLoaded,    \* Main.dbLoaded
    loading,     \* Loader.loading
    savedHandle, \* Loader.savedHandle
    error,       \* Loader.error is set
    isSaving,    \* Main.isSaving
    saveStatus,  \* Main.saveStatus, plus the alert and the download
    tasks,       \* suspended async handlers: the awaits in flight
    started,     \* number of handlers started so far
    sqlReady,    \* the promise of window.initSqlJs has resolved
    microtasks   \* ids of the handlers queued behind that promise, in order

vars == <<db, fileHandle, engines, clock, last, calls, cache, idb, disk,
          perm, dbLoaded, loading, savedHandle, error, isSaving, saveStatus,
          tasks, started, sqlReady, microtasks>>

sessionVars == <<db, engines, clock, last, calls>>

appVars == <<fileHandle, cache, idb, disk, perm, dbLoaded, loading,
             savedHandle, error, isSaving, saveStatus, tasks, started,
             sqlReady, microtasks>>

----------------------------------------------------------------------------
(* Bounds of the model *)

MaxRows == 2       \* rows ever inserted into one table of one engine
MaxCalls == 4      \* engine-changing calls and clock ticks in one run
MaxStarted == 3    \* handlers started in one run of Spec

----------------------------------------------------------------------------
(* The embedded engine (sql.js) as DatabaseService uses it *)

NoDb == [kind |-> "null"]

\* PRAGMA foreign_keys of a connection the program opens.  SQLite leaves it off
\* unless the program turns it on, and no statement of the program does.
ForeignKeys == FALSE

\* new SQL.Database() followed by initSchema(): three empty tables.  fk is the
\* connection's foreign_keys pragma, seq is sqlite_sequence (AUTOINCREMENT),
\* rowid the connection's last_insert_rowid().
EmptyEngine ==
    [kind |-> "ok", fk |-> ForeignKeys, projects |-> {}, bots |-> {}, prompts |-> {},
     seq |-> [projects |-> 0, bots |-> 0, prompts |-> 0], rowid |-> 0]

\* An engine opened lazily over bytes that are no database image: every
\* statement on it fails with "file is not a database".
CorruptEngine == [kind |-> "corrupt"]

\* An engine over a file of zero bytes: a database without tables, on which
\* every statement of the program fails with "no such table".
BareEngine == [kind |-> "bare"]

Garbage == [fmt |-> "garbage"]

EmptyFile == [fmt |-> "empty"]

\* db.export() as it would be if the file lacked the projects table's rows.
ExportNoProjects(e) ==
    IF e.kind = "ok"
    THEN [fmt |-> "sqlite", projects |-> {}, bots |-> e.bots,
          prompts |-> e.prompts, seq |-> e.seq]
    ELSE IF e.kind = "bare" THEN EmptyFile
    ELSE Garbage

\* db.export(): the database file.  The connection's state (foreign_keys,
\* last_insert_rowid) is not part of the file.
Export(e) ==
    IF e.kind = "ok"
    THEN [fmt |-> "sqlite", projects |-> e.projects, bots |-> e.bots,
          prompts |-> e.prompts, seq |-> e.seq]
    ELSE IF e.kind = "bare" THEN EmptyFile
    ELSE Garbage

\* new SQL.Database(data) as it would be if the prompts table were not read.
OpenImageNoPrompts(bytes) ==
    [kind |-> "ok", fk |-> ForeignKeys, projects |-> bytes.projects, bots |-> bytes.bots,
     prompts |-> {}, seq |-> bytes.seq, rowid |-> 0]

\* new SQL.Database(data) on a database image: a fresh connection on its rows.
OpenImage(bytes) ==
    [kind |-> "ok", fk |-> ForeignKeys, projects |-> bytes.projects, bots |-> bytes.bots,
     prompts |-> bytes.prompts, seq |-> bytes.seq, rowid |-> 0]

\* The reopening of export() as it would be were sqlite_sequence state of the
\* connection and not of the file.
ReopenedForgetsSequence(e) ==
    IF e.kind = "ok"
    THEN [e EXCEPT !.rowid = 0, !.fk = ForeignKeys,
                   !.seq = [projects |-> 0, bots |-> 0, prompts |-> 0]]
    ELSE e

\* db.export() closes the connection and opens a new one on the same file:
\* the rows stay, the connection's state starts anew.
Reopened(e) ==
    IF e.kind = "ok" THEN [e EXCEPT !.rowid = 0, !.fk = ForeignKeys] ELSE e

\* What new SQL.Database(data) can do with data: open it; on zero bytes, open
\* a database without tables; on bytes that are no database image, either
\* throw or (sqlite3_open reads nothing of the file) hand out a connection
\* whose statements fail.
OpenOutcomes(bytes) ==
    IF bytes.fmt = "sqlite" THEN {[ok |-> TRUE, engine |-> OpenImage(bytes)]}
    ELSE IF bytes.fmt = "empty" THEN {[ok |-> TRUE, engine |-> BareEngine]}
    ELSE {[ok |-> FALSE], [ok |-> TRUE, engine |-> CorruptEngine]}

Ids(table) == {r.id : r \in table}

Row(table, id) == CHOOSE r \in table : r.id = id

\* JSON.stringify({ temperature: 0.7, maxOutputTokens: 1024 }, null, 2)
DefaultParams == "{\n  \"temperature\": 0.7,\n  \"maxOutputTokens\": 1024\n}"

CopySuffix == " (Copy)"

----------------------------------------------------------------------------
(* DatabaseService's methods as functions of the engine.  Each yields the    *)
(* engine after the call, how the call ended and what it returned:           *)
(*   "ok"              it returned                                           *)
(*   "NotInitialized"  it threw Error("Database not initialized")            *)
(*   "TypeError"       it threw on this.db being null                        *)
(*   "EngineError"     the engine threw while running the statement          *)

NoRet == [none |-> TRUE]

Done(e, ret) == [db |-> e, outcome |-> "ok", ret |-> ret]

Threw(e, what) == [db |-> e, outcome |-> what, ret |-> NoRet]

\* A method whose first use of this.db is a call on it: statement(e) is what
\* it does on a working engine.
OnEngine(e, result) ==
    IF e.kind = "null" THEN Threw(e, "TypeError")
    ELSE IF e.kind # "ok" THEN Threw(e, "EngineError")
    ELSE result

\* The id of an INSERT as it would be were the column not AUTOINCREMENT: one
\* more than the largest rowid in the table.
NextIdAfterLargest(e, table) ==
    IF e[table] = {} THEN 1
    ELSE (CHOOSE m \in Ids(e[table]) : \A o \in Ids(e[table]) : m >= o) + 1

\* INSERT into an AUTOINCREMENT table: the row gets id seq + 1.
NextId(e, table) == e.seq[table] + 1

Inserted(e, table, row) ==
    [e EXCEPT ![table] = @ \cup {row},
              !.seq[table] = row.id,
              !.rowid = row.id]

\* A SELECT without its ORDER BY clause: the rows in rowid order.
RECURSIVE InRowidOrder(_)
InRowidOrder(rows) ==
    IF rows = {} THEN <<>>
    ELSE LET first == CHOOSE r \in rows : \A o \in rows : r.id <= o.id
         IN  <<first>> \o InRowidOrder(rows \ {first})

\* ORDER BY updated_at DESC; rows of one second come in rowid order.
RECURSIVE Sorted(_)
Sorted(rows) ==
    IF rows = {} THEN <<>>
    ELSE LET first == CHOOSE r \in rows :
                 \A o \in rows :
                     \/ r.updated_at > o.updated_at
                     \/ r.updated_at = o.updated_at /\ r.id <= o.id
         IN  <<first>> \o Sorted(rows \ {first})

\* What a method returned: nothing, rows, one row or none, an id, bytes.
Rows(seq) == [rows |-> seq]

getProjects(e) == OnEngine(e, Done(e, Rows(Sorted(e.projects))))

NotFound == [found |-> FALSE]

Found(r) == [found |-> TRUE, row |-> r]

Fetch(table, id) == IF id \in Ids(table) THEN Found(Row(table, id)) ELSE NotFound

getProject(e, id) == OnEngine(e, Done(e, Fetch(e.projects, id)))

createProject(e, name, description, now) ==
    OnEngine(e, Done(Inserted(e, "projects",
        [id |-> NextId(e, "projects"), name |-> name, description |-> description,
         created_at |-> now, updated_at |-> now]), NoRet))

updateProject(e, id, name, description, now) ==
    OnEngine(e, Done([e EXCEPT !.projects =
        {IF r.id = id
         THEN [r EXCEPT !.name = name, !.description = description, !.updated_at = now]
         ELSE r : r \in @}], NoRet))

\* DELETE FROM projects WHERE id = ?  The ON DELETE CASCADE clauses of the
\* schema act only on a connection whose foreign_keys pragma is on.
deleteProject(e, id) ==
    OnEngine(e, Done(
        LET gone == IF e.fk THEN {b.id : b \in {b \in e.bots : b.project_id = id}} ELSE {}
        IN  [e EXCEPT !.projects = {r \in @ : r.id # id},
                      !.bots = {b \in @ : b.id \notin gone},
                      !.prompts = {p \in @ : p.bot_id \notin gone}], NoRet))

\* getBots as it would be without its WHERE clause.
getBotsOfAll(e, projectId) == OnEngine(e, Done(e, Rows(Sorted(e.bots))))

getBots(e, projectId) ==
    OnEngine(e, Done(e, Rows(Sorted({b \in e.bots : b.project_id = projectId}))))

getBot(e, id) == OnEngine(e, Done(e, Fetch(e.bots, id)))

\* With foreign_keys on the INSERT fails unless the project exists.
createBot(e, projectId, name, description, now) ==
    OnEngine(e,
        IF e.fk /\ projectId \notin Ids(e.projects)
        THEN Threw(e, "EngineError")
        ELSE Done(Inserted(e, "bots",
            [id |-> NextId(e, "bots"), project_id |-> projectId, name |-> name,
             description |-> description, created_at |-> now, updated_at |-> now]),
            NoRet))

updateBot(e, id, name, description, now) ==
    OnEngine(e, Done([e EXCEPT !.bots =
        {IF r.id = id
         THEN [r EXCEPT !.name = name, !.description = description, !.updated_at = now]
         ELSE r : r \in @}], NoRet))

deleteBot(e, id) ==
    OnEngine(e, Done(
        [e EXCEPT !.bots = {b \in @ : b.id # id},
                  !.prompts = IF e.fk THEN {p \in @ : p.bot_id # id} ELSE @], NoRet))

getPrompts(e, botId) ==
    OnEngine(e, Done(e, Rows(Sorted({p \in e.prompts : p.bot_id = botId}))))

\* getPrompt as it would be if it read the first row of the result without
\* looking whether there is one.
getPromptOrThrow(e, id) ==
    OnEngine(e, IF id \in Ids(e.prompts)
                THEN Done(e, Fetch(e.prompts, id))
                ELSE Threw(e, "TypeError"))

getPrompt(e, id) == OnEngine(e, Done(e, Fetch(e.prompts, id)))

PromptRow(id, botId, name, sys, usr, dev, params, now) ==
    [id |-> id, bot_id |-> botId, name |-> name, system_prompt |-> sys,
     user_prompt |-> usr, dev_prompt |-> dev, params |-> params,
     created_at |-> now, updated_at |-> now]

\* createPrompt as it would be if it read last_insert_rowid() before its
\* INSERT ran.
createPromptReadsEarly(e, botId, name, now) ==
    OnEngine(e,
        IF e.fk /\ botId \notin Ids(e.bots)
        THEN Threw(e, "EngineError")
        ELSE LET new == Inserted(e, "prompts",
                     PromptRow(NextId(e, "prompts"), botId, name, "", "", "",
                               DefaultParams, now))
             IN  Done(new, [id |-> e.rowid]))

\* Returns SELECT last_insert_rowid().
createPrompt(e, botId, name, now) ==
    OnEngine(e,
        IF e.fk /\ botId \notin Ids(e.bots)
        THEN Threw(e, "EngineError")
        ELSE LET new == Inserted(e, "prompts",
                     PromptRow(NextId(e, "prompts"), botId, name, "", "", "",
                               DefaultParams, now))
             IN  Done(new, [id |-> new.rowid]))

\* The columns updatePrompt looks at, in its order.
Updatable == {"name", "system_prompt", "user_prompt", "dev_prompt", "params"}

\* updatePrompt as it would be if it wrote every updatable column, the ones
\* data does not carry as empty text.
updatePromptEveryColumn(e, id, data, now) ==
    LET present == DOMAIN data \cap Updatable
    IN  IF present = {} THEN Done(e, NoRet)
        ELSE OnEngine(e, Done([e EXCEPT !.prompts =
                 {IF r.id = id
                  THEN [f \in DOMAIN r |->
                           IF f \in present THEN data[f]
                           ELSE IF f \in Updatable THEN ""
                           ELSE IF f = "updated_at" THEN now
                           ELSE r[f]]
                  ELSE r : r \in @}], NoRet))

\* updatePrompt as it would be without its early return: updated_at is set
\* even when data carries no updatable column.
updatePromptAlwaysStamps(e, id, data, now) ==
    LET present == DOMAIN data \cap Updatable
    IN  OnEngine(e, Done([e EXCEPT !.prompts =
            {IF r.id = id
             THEN [f \in DOMAIN r |->
                      IF f \in present THEN data[f]
                      ELSE IF f = "updated_at" THEN now
                      ELSE r[f]]
             ELSE r : r \in @}], NoRet))

\* updatePrompt as it would be if updated_at were among the columns it takes
\* from data.
updatePromptTakesStamp(e, id, data, now) ==
    LET present == DOMAIN data \cap Updatable
    IN  IF present = {} THEN Done(e, NoRet)
        ELSE OnEngine(e, Done([e EXCEPT !.prompts =
                 {IF r.id = id
                  THEN [f \in DOMAIN r |->
                           IF f \in present THEN data[f]
                           ELSE IF f = "updated_at"
                                THEN (IF f \in DOMAIN data THEN data[f] ELSE now)
                           ELSE r[f]]
                  ELSE r : r \in @}], NoRet))

\* updatePrompt as it would be if it wrote every column data carries.
updatePromptTakesAll(e, id, data, now) ==
    LET present == DOMAIN data \cap Updatable
    IN  IF present = {} THEN Done(e, NoRet)
        ELSE OnEngine(e, Done([e EXCEPT !.prompts =
                 {IF r.id = id
                  THEN [f \in DOMAIN r |->
                           IF f \in DOMAIN data \ {"updated_at"} THEN data[f]
                           ELSE IF f = "updated_at" THEN now
                           ELSE r[f]]
                  ELSE r : r \in @}], NoRet))

\* data is a partial Prompt: a function from the fields it carries to values.
updatePrompt(e, id, data, now) ==
    LET present == DOMAIN data \cap Updatable
    IN  IF present = {} THEN Done(e, NoRet)
        ELSE OnEngine(e, Done([e EXCEPT !.prompts =
                 {IF r.id = id
                  THEN [f \in DOMAIN r |->
                           IF f \in present THEN data[f]
                           ELSE IF f = "updated_at" THEN now
                           ELSE r[f]]
                  ELSE r : r \in @}], NoRet))

deletePrompt(e, id) ==
    OnEngine(e, Done([e EXCEPT !.prompts = {p \in @ : p.id # id}], NoRet))

\* duplicatePrompt as it would be if the copy kept the name of the original.
duplicatePromptSameName(e, id, now) ==
    LET got == getPrompt(e, id)
    IN  IF got.outcome # "ok" THEN got
        ELSE IF ~got.ret.found THEN Done(e, NoRet)
        ELSE LET p == got.ret.row
             IN  Done(Inserted(e, "prompts",
                     PromptRow(NextId(e, "prompts"), p.bot_id, p.name,
                               p.system_prompt, p.user_prompt, p.dev_prompt,
                               p.params, now)), NoRet)

\* duplicatePrompt as it would be without its early return: it reads the
\* fields of null.
duplicatePromptOfNull(e, id, now) ==
    LET got == getPrompt(e, id)
    IN  IF got.outcome # "ok" THEN got
        ELSE IF ~got.ret.found THEN Threw(e, "TypeError")
        ELSE LET p == got.ret.row
             IN  Done(Inserted(e, "prompts",
                     PromptRow(NextId(e, "prompts"), p.bot_id, p.name \o CopySuffix,
                               p.system_prompt, p.user_prompt, p.dev_prompt,
                               p.params, now)), NoRet)

duplicatePrompt(e, id, now) ==
    LET got == getPrompt(e, id)
    IN  IF got.outcome # "ok" THEN got
        ELSE IF ~got.ret.found THEN Done(e, NoRet)
        ELSE LET p == got.ret.row
             IN  Done(Inserted(e, "prompts",
                     PromptRow(NextId(e, "prompts"), p.bot_id, p.name \o CopySuffix,
                               p.system_prompt, p.user_prompt, p.dev_prompt,
                               p.params, now)), NoRet)

\* export(): the only method that checks this.db itself.
export(e) ==
    IF e.kind = "null" THEN Threw(e, "NotInitialized")
    ELSE Done(Reopened(e), [bytes |-> Export(e)])

\* init(data?): what it can do to this.db.  It fails before touching this.db
\* when sql.js is not there or does not load, and when the constructor throws.
\* made tells whether a new engine instance came to be.
NoData == [fmt |-> "undefined"]

\* init() as it would be if it let go of the current engine before it opened
\* the next one: a failure leaves no engine.
InitOutcomesDropFirst(e, data) ==
    {[db |-> NoDb, outcome |-> "SqlJsError", ret |-> NoRet, made |-> FALSE]}
    \cup
    IF data = NoData
    THEN {[db |-> EmptyEngine, outcome |-> "ok", ret |-> NoRet, made |-> TRUE]}
    ELSE {IF o.ok
          THEN [db |-> o.engine, outcome |-> "ok", ret |-> NoRet, made |-> TRUE]
          ELSE [db |-> NoDb, outcome |-> "EngineLoadError", ret |-> NoRet, made |-> FALSE]
          : o \in OpenOutcomes(data)}

InitOutcomes(e, data) ==
    {[db |-> e, outcome |-> "SqlJsError", ret |-> NoRet, made |-> FALSE]}
    \cup
    IF data = NoData
    THEN {[db |-> EmptyEngine, outcome |-> "ok", ret |-> NoRet, made |-> TRUE]}
    ELSE {IF o.ok
          THEN [db |-> o.engine, outcome |-> "ok", ret |-> NoRet, made |-> TRUE]
          ELSE [db |-> e, outcome |-> "EngineLoadError", ret |-> NoRet, made |-> FALSE]
          : o \in OpenOutcomes(data)}

----------------------------------------------------------------------------
(* Inputs *)

NoHandle == "none"

Handles == {"h1", "h2"}

IdArgs == 1 .. (MaxRows + 1)

NewName == "n"

Texts == {"x"}

\* The partial prompts handed to updatePrompt.
\* The updated_at of a Prompt object a client passes back to updatePrompt.
ClientStamp == 7

\* An id in such an object that is the id of no row.
ClientId == 0

Partials ==
    {<<>>} \cup {[f \in {"name"} |-> "x"], [f \in {"system_prompt"} |-> "x"],
                 [f \in {"updated_at"} |-> ClientStamp],
                 [name |-> "x", updated_at |-> ClientStamp],
                 [id |-> ClientId, bot_id |-> ClientId, name |-> "x",
                  created_at |-> ClientStamp, updated_at |-> ClientStamp]}

NoCall == [op |-> "none", outcome |-> "ok", ret |-> NoRet]

InitSession ==
    /\ db = NoDb
    /\ engines = 0
    /\ clock = 0
    /\ last = NoCall
    /\ calls = 0

IdleApp ==
    /\ fileHandle = NoHandle
    /\ cache = NoHandle
    /\ idb = "ok"
    /\ disk = [h \in Handles |-> Garbage]
    /\ perm = [h \in Handles |-> "granted"]
    /\ dbLoaded = FALSE
    /\ loading = FALSE
    /\ savedHandle = NoHandle
    /\ error = FALSE
    /\ isSaving = FALSE
    /\ saveStatus = "none"
    /\ tasks = {}
    /\ started = 0
    /\ sqlReady = TRUE
    /\ microtasks = <<>>

----------------------------------------------------------------------------
(* SpecSession: one DatabaseService call after the other *)

Reads ==
    {"getProjects", "getProject", "getBots", "getBot", "getPrompts", "getPrompt"}

\* The get methods run SELECTs only and leave the engine as it is, so a run
\* looks at their results last: every engine state is still read in every
\* way, and no continuation is explored once per result.
Open == last.op \notin Reads

Returned(op, r) ==
    /\ Open
    /\ db' = r.db
    /\ last' = [op |-> op, outcome |-> r.outcome, ret |-> r.ret]
    /\ UNCHANGED <<engines, clock, calls>>
    /\ UNCHANGED appVars

\* A call of a method that writes to the engine.
Changed(op, r) ==
    /\ Open
    /\ calls < MaxCalls
    /\ db' = r.db
    /\ last' = [op |-> op, outcome |-> r.outcome, ret |-> r.ret]
    /\ calls' = calls + 1
    /\ UNCHANGED <<engines, clock>>
    /\ UNCHANGED appVars

HasRoom(table) == db.kind = "ok" => db.seq[table] < MaxRows

\* init() and init(bytes), bytes being what export() last returned or bytes
\* that are no database image.
CallInit ==
    \E data \in {NoData, Garbage, EmptyFile} \cup
                (IF last.op = "export" /\ last.outcome = "ok" THEN {last.ret.bytes} ELSE {}) :
      \E r \in InitOutcomes(db, data) :
        /\ Open
        /\ calls < MaxCalls
        /\ db' = r.db
        /\ engines' = IF r.made THEN engines + 1 ELSE engines
        /\ last' = [op |-> "init", outcome |-> r.outcome, ret |-> r.ret]
        /\ calls' = calls + 1
        /\ UNCHANGED clock
        /\ UNCHANGED appVars

CallExport == Returned("export", export(db))

CallGetProjects == Returned("getProjects", getProjects(db))

CallGetProject == \E id \in IdArgs : Returned("getProject", getProject(db, id))

CallCreateProject ==
    /\ HasRoom("projects")
    /\ Changed("createProject", createProject(db, NewName, "", clock))

CallUpdateProject ==
    \E id \in IdArgs, t \in Texts :
        Changed("updateProject", updateProject(db, id, t, t, clock))

CallDeleteProject ==
    \E id \in IdArgs : Changed("deleteProject", deleteProject(db, id))

CallGetBots == \E pid \in IdArgs : Returned("getBots", getBots(db, pid))

CallGetBot == \E id \in IdArgs : Returned("getBot", getBot(db, id))

CallCreateBot ==
    /\ HasRoom("bots")
    /\ \E pid \in IdArgs : Changed("createBot", createBot(db, pid, NewName, "", clock))

CallUpdateBot ==
    \E id \in IdArgs, t \in Texts : Changed("updateBot", updateBot(db, id, t, t, clock))

CallDeleteBot == \E id \in IdArgs : Changed("deleteBot", deleteBot(db, id))

CallGetPrompts == \E bid \in IdArgs : Returned("getPrompts", getPrompts(db, bid))

CallGetPrompt == \E id \in IdArgs : Returned("getPrompt", getPrompt(db, id))

CallCreatePrompt ==
    /\ HasRoom("prompts")
    /\ \E bid \in IdArgs : Changed("createPrompt", createPrompt(db, bid, NewName, clock))

CallUpdatePrompt ==
    \E id \in IdArgs, data \in Partials :
        Changed("updatePrompt", updatePrompt(db, id, data, clock))

CallDeletePrompt == \E id \in IdArgs : Changed("deletePrompt", deletePrompt(db, id))

CallDuplicatePrompt ==
    /\ HasRoom("prompts")
    /\ \E id \in IdArgs : Changed("duplicatePrompt", duplicatePrompt(db, id, clock))

\* A second passes on the engine's clock.
Tick ==
    /\ Open
    /\ calls < MaxCalls
    /\ clock' = clock + 1
    /\ calls' = calls + 1
    /\ UNCHANGED <<db, engines, last>>
    /\ UNCHANGED appVars

NextSession ==
    \/ CallInit
    \/ CallExport
    \/ CallGetProjects
    \/ CallGetProject
    \/ CallCreateProject
    \/ CallUpdateProject
    \/ CallDeleteProject
    \/ CallGetBots
    \/ CallGetBot
    \/ CallCreateBot
    \/ CallUpdateBot
    \/ CallDeleteBot
    \/ CallGetPrompts
    \/ CallGetPrompt
    \/ CallCreatePrompt
    \/ CallUpdatePrompt
    \/ CallDeletePrompt
    \/ CallDuplicatePrompt
    \/ Tick

InitAlone == InitSession /\ IdleApp

SpecSession == InitAlone /\ [][NextSession]_vars

----------------------------------------------------------------------------
(* StorageService: one object store of IndexedDB, one key, 'db_handle' *)

\* What IndexedDB can be to the page.  "unavailable": window.indexedDB is not
\* there.  "denied": indexedDB.open() throws SecurityError (storage is blocked
\* for the page, or its origin is opaque).  "down": the open request ends with
\* an error event.  "noStore": the database is there without the object
\* store.  "ioError": the request inside the transaction fails.
StoreStates == {"ok", "unavailable", "denied", "down", "noStore", "ioError"}

\* How a promise of StorageService ends, and what the slot holds then.
Resolved(slot, value) == [outcome |-> "resolved", slot |-> slot, ret |-> value]
Rejected(slot, e) == [outcome |-> "rejected", slot |-> slot, ret |-> e]
Pending(slot) == [outcome |-> "pending", slot |-> slot, ret |-> NoHandle]

\* getHandle(): resolve(undefined) on !window.indexedDB, in request.onerror,
\* in the catch around the transaction and in req.onerror.  indexedDB.open()
\* is called in the promise's executor outside the try: when it throws, the
\* promise rejects.
getHandle(store, slot) ==
    CASE store = "unavailable" -> Resolved(slot, NoHandle)
      [] store = "denied" -> Rejected(slot, "SecurityError")
      [] store = "down" -> Resolved(slot, NoHandle)
      [] store = "noStore" -> Resolved(slot, NoHandle)
      [] store = "ioError" -> Resolved(slot, NoHandle)
      [] OTHER -> Resolved(slot, slot)

\* saveHandle as it would be with store.add in place of store.put: the
\* request fails when the key is taken.
saveHandleAdds(store, slot, handle) ==
    CASE store = "unavailable" -> Rejected(slot, "TypeError")
      [] store = "denied" -> Rejected(slot, "SecurityError")
      [] store = "down" -> Pending(slot)
      [] store = "noStore" -> Pending(slot)
      [] store = "ioError" -> Rejected(slot, "undefined")
      [] OTHER -> IF slot = NoHandle THEN Resolved(handle, NoHandle)
                  ELSE Rejected(slot, "undefined")

\* saveHandle(handle): store.put(handle, 'db_handle').  No request.onerror and
\* no try: the promise stays pending when the database does not open or has
\* no object store.  tx.onerror rejects with undefined; a throw of
\* indexedDB.open() in the executor rejects with what was thrown.
saveHandle(store, slot, handle) ==
    CASE store = "unavailable" -> Rejected(slot, "TypeError")
      [] store = "denied" -> Rejected(slot, "SecurityError")
      [] store = "down" -> Pending(slot)
      [] store = "noStore" -> Pending(slot)
      [] store = "ioError" -> Rejected(slot, "undefined")
      [] OTHER -> Resolved(handle, NoHandle)

\* clearHandle(): store.delete('db_handle').  Only tx.oncomplete settles the
\* promise; no onupgradeneeded, no onerror handler at all.
clearHandle(store, slot) ==
    CASE store = "unavailable" -> Rejected(slot, "TypeError")
      [] store = "denied" -> Rejected(slot, "SecurityError")
      [] store \in {"down", "noStore", "ioError"} -> Pending(slot)
      [] OTHER -> Resolved(NoHandle, NoHandle)

\* What one call may meet, IndexedDB being idb: a request of a working store
\* may fail.
Stores(i) == IF i = "ok" THEN {"ok", "ioError"} ELSE {i}

----------------------------------------------------------------------------
(* Spec: the application.  An async handler is a task that stops at each of  *)
(* its awaits; a step resumes one task and runs it to its next await.        *)

Missing == [fmt |-> "missing"]

\* The image of a database that holds one project.
OneProject == Export(createProject(EmptyEngine, NewName, "", 0).db)

\* The files a user drops on the Loader or uploads.
DroppedFiles == {Garbage, OneProject}

\* A suspended handler: which one, the await it is at, the handle and the
\* bytes it holds, and bound, the fileHandle its setFileHandle call replaced.
Task(id, op, pc, h, data) ==
    [id |-> id, op |-> op, pc |-> pc, h |-> h, data |-> data, bound |-> NoHandle,
     at |-> 0]

\* IndexedDB serves the open requests of one database, and the transactions
\* made in their success events, in the order of the calls: a call of
\* StorageService takes its place in line, at, behind the calls under way.
IdbCalls == {"getHandle", "saveHandle", "clear"}

Waiting == {t \in tasks : t.pc \in IdbCalls}

Ticket ==
    IF Waiting = {} THEN 1
    ELSE 1 + (CHOOSE n \in {t.at : t \in Waiting} : \A t \in Waiting : n >= t.at)

InLine(t) == [t EXCEPT !.at = IF t.pc \in IdbCalls THEN Ticket ELSE 0]

FirstInLine(t) == t.pc \in IdbCalls /\ \A u \in Waiting : t.at <= u.at

\* The page as it loads: the Loader is mounted and its effect has called
\* StorageService.getHandle(); a handle may be remembered from an earlier run;
\* the files behind the handles are there, one a database image and one not.
InitApp ==
    /\ fileHandle = NoHandle
    /\ idb \in {"ok", "down", "denied"}
    /\ cache \in (IF idb = "ok" THEN {NoHandle, "h1"} ELSE {NoHandle})
    /\ disk = [h \in Handles |-> IF h = "h1" THEN OneProject ELSE Garbage]
    /\ perm = [h \in Handles |-> "prompt"]
    /\ dbLoaded = FALSE
    /\ loading = FALSE
    /\ savedHandle = NoHandle
    /\ error = FALSE
    /\ isSaving = FALSE
    /\ saveStatus = "none"
    /\ tasks = {[Task(0, "mount", "getHandle", NoHandle, NoData) EXCEPT !.at = 1]}
    /\ started = 0
    /\ sqlReady = FALSE
    /\ microtasks = <<>>

\* What the Loader's and Main's own steps leave alone.
aside == <<sqlReady, clock, last, calls>>

\* A file picker is modal: while one is open the page takes no user event.
NoPicker == \A t \in tasks : t.pc # "picker"

\* Once SQL.js is loaded, init() and its caller's continuation run as
\* microtasks, ahead of every event and every other await's completion.
Settled == sqlReady => microtasks = <<>>

\* A handler reaches its await of init(), itself at its await of initSqlJs.
Queued(id) == microtasks' = Append(microtasks, id)

CanStart == started < MaxStarted /\ NoPicker /\ Settled

\* The Loader is rendered until dbLoaded; its buttons are disabled={loading}.
ButtonEnabled == ~dbLoaded /\ ~loading /\ CanStart

Spawn(op, pc, h, data) ==
    /\ tasks' = tasks \cup {Task(started + 1, op, pc, h, data)}
    /\ started' = started + 1

Become(t, pc, h, data) ==
    tasks' = (tasks \ {t}) \cup {InLine([t EXCEPT !.pc = pc, !.h = h, !.data = data])}

\* A promise of StorageService that is never settled: its handler stays at
\* its await for good.
Hung(t) == tasks' = (tasks \ {t}) \cup {Task(t.id, t.op, "hung", NoHandle, NoData)}

Ended(t) == tasks' = tasks \ {t}

\* Loader.handleNew up to its first await, dbService.init().
StartNew ==
    /\ ButtonEnabled
    /\ loading' = TRUE
    /\ Spawn("new", "init", NoHandle, NoData)
    /\ Queued(started + 1)
    /\ UNCHANGED <<db, engines, fileHandle, cache, idb, disk, perm, dbLoaded,
                   savedHandle, error, isSaving, saveStatus, aside>>

\* Loader.handleCreateAtLocation up to showSaveFilePicker(); the button is
\* rendered when no handle is remembered.
StartCreateAtLocation ==
    /\ ButtonEnabled
    /\ savedHandle = NoHandle
    /\ loading' = TRUE
    /\ Spawn("create", "picker", NoHandle, NoData)
    /\ UNCHANGED <<db, engines, fileHandle, cache, idb, disk, perm, dbLoaded,
                   savedHandle, error, isSaving, saveStatus, microtasks, aside>>

\* Loader.handleOpenLocation up to showOpenFilePicker().
StartOpenLocation ==
    /\ ButtonEnabled
    /\ loading' = TRUE
    /\ Spawn("open", "picker", NoHandle, NoData)
    /\ UNCHANGED <<db, engines, fileHandle, cache, idb, disk, perm, dbLoaded,
                   savedHandle, error, isSaving, saveStatus, microtasks, aside>>

\* Loader.handleLoadSaved up to savedHandle.queryPermission().
StartLoadSaved ==
    /\ ButtonEnabled
    /\ savedHandle # NoHandle
    /\ loading' = TRUE
    /\ Spawn("saved", "query", savedHandle, NoData)
    /\ UNCHANGED <<db, engines, fileHandle, cache, idb, disk, perm, dbLoaded,
                   savedHandle, error, isSaving, saveStatus, microtasks, aside>>

\* Loader.loadFile, from handleDrop or handleFileUpload, up to the FileReader's
\* load.  The drop zone is not disabled while loading.
StartLoadFile ==
    /\ ~dbLoaded
    /\ CanStart
    /\ \E file \in DroppedFiles :
         /\ loading' = TRUE
         /\ Spawn("file", "reader", NoHandle, file)
    /\ UNCHANGED <<db, engines, fileHandle, cache, idb, disk, perm, dbLoaded,
                   savedHandle, error, isSaving, saveStatus, microtasks, aside>>

\* The catch blocks of the Loader's handlers: setError, setLoading(false).
Caught(t) ==
    /\ error' = TRUE
    /\ loading' = FALSE
    /\ Ended(t)

\* handleLoadSaved's catch as it would be without its test of the message.
CaughtStaleKeeps(t) ==
    /\ error' = TRUE
    /\ loading' = FALSE
    /\ savedHandle' = savedHandle
    /\ Ended(t)

\* handleLoadSaved's catch on a message that holds 'found' or 'denied': it also
\* forgets the handle and calls StorageService.clearHandle() without awaiting.
CaughtStale(t) ==
    /\ error' = TRUE
    /\ loading' = FALSE
    /\ savedHandle' = NoHandle
    /\ tasks' = (tasks \ {t}) \cup
                 {InLine(Task(0 - t.id, "forget", "clear", NoHandle, NoData))}

\* onLoaded(): Main's setDbLoaded(true).
Loaded(t) ==
    /\ dbLoaded' = TRUE
    /\ Ended(t)

\* The Loader's effect: StorageService.getHandle() settles, and the effect
\* keeps a handle it got.  It has no catch.
GetHandleResolves ==
    \E t \in tasks, s \in Stores(idb) :
      /\ Settled
      /\ FirstInLine(t)
      /\ t.pc = "getHandle"
      /\ LET got == getHandle(s, cache) IN
           /\ got.outcome # "pending"
           /\ savedHandle' = IF got.outcome = "resolved" /\ got.ret # NoHandle /\ ~dbLoaded
                             THEN got.ret ELSE savedHandle
      /\ Ended(t)
      /\ UNCHANGED <<db, engines, fileHandle, cache, idb, disk, perm, dbLoaded,
                     loading, error, isSaving, saveStatus, started, microtasks, aside>>

\* showSaveFilePicker / showOpenFilePicker resolves: the user cancels
\* (AbortError: setLoading(false) only), or picks a file.  The save picker
\* creates the file when it is not there and grants readwrite; the open picker
\* grants read.
PickerResolves ==
    \E t \in tasks :
      /\ Settled
      /\ t.pc = "picker"
      /\ \/ /\ loading' = FALSE
            /\ Ended(t)
            /\ UNCHANGED <<disk, perm, microtasks>>
         \/ \E h \in Handles :
              /\ t.op = "create"
              /\ perm' = [perm EXCEPT ![h] = "granted"]
              /\ disk' = [disk EXCEPT ![h] = IF @ = Missing THEN EmptyFile ELSE @]
              /\ Become(t, "init", h, NoData)
              /\ Queued(t.id)
              /\ UNCHANGED loading
         \/ \E h \in Handles :
              /\ t.op = "open"
              /\ disk[h] # Missing
              /\ Become(t, "read", h, NoData)
              /\ UNCHANGED <<disk, perm, loading, microtasks>>
      /\ UNCHANGED <<db, engines, fileHandle, cache, idb, dbLoaded, savedHandle,
                     error, isSaving, saveStatus, started, aside>>

\* savedHandle.queryPermission({mode: 'readwrite'}) resolves.
QueryResolves ==
    \E t \in tasks :
      /\ Settled
      /\ t.pc = "query"
      /\ Become(t, IF perm[t.h] = "granted" THEN "read" ELSE "request", t.h, NoData)
      /\ UNCHANGED <<db, engines, fileHandle, cache, idb, disk, perm, dbLoaded,
                     loading, savedHandle, error, isSaving, saveStatus, started,
                     microtasks, aside>>

\* savedHandle.requestPermission({mode: 'readwrite'}) resolves: the user grants
\* it, or it is refused and handleLoadSaved throws "Permission denied".
RequestResolves ==
    \E t \in tasks :
      /\ Settled
      /\ t.pc = "request"
      /\ \/ /\ perm[t.h] # "denied"
            /\ perm' = [perm EXCEPT ![t.h] = "granted"]
            /\ Become(t, "read", t.h, NoData)
            /\ UNCHANGED <<loading, savedHandle, error>>
         \/ /\ perm' = [perm EXCEPT ![t.h] = "denied"]
            /\ CaughtStale(t)
      /\ UNCHANGED <<db, engines, fileHandle, cache, idb, disk, dbLoaded,
                     isSaving, saveStatus, started, microtasks, aside>>

\* handle.getFile() and file.arrayBuffer() resolve with the file's bytes, or
\* getFile() rejects with NotFoundError: the file is gone, or goes now.
ReadResolves ==
    \E t \in tasks :
      /\ Settled
      /\ t.pc = "read"
      /\ \/ /\ disk[t.h] # Missing
            /\ Become(t, "init", t.h, disk[t.h])
            /\ Queued(t.id)
            /\ UNCHANGED <<disk, loading, savedHandle, error>>
         \/ /\ disk' = [disk EXCEPT ![t.h] = Missing]
            /\ IF t.op = "saved" THEN CaughtStale(t)
               ELSE Caught(t) /\ UNCHANGED savedHandle
            /\ UNCHANGED microtasks
      /\ UNCHANGED <<db, engines, fileHandle, cache, idb, perm, dbLoaded,
                     isSaving, saveStatus, started, aside>>

\* The FileReader's load: reader.onload calls dbService.init(u8).
ReaderLoads ==
    \E t \in tasks :
      /\ Settled
      /\ t.pc = "reader"
      /\ Become(t, "init", NoHandle, t.data)
      /\ Queued(t.id)
      /\ UNCHANGED <<db, engines, fileHandle, cache, idb, disk, perm, dbLoaded,
                     loading, savedHandle, error, isSaving, saveStatus, started,
                     aside>>

\* window.initSqlJs's promise resolves for the first time.
SqlLoads ==
    /\ ~sqlReady
    /\ microtasks # <<>>
    /\ sqlReady' = TRUE
    /\ UNCHANGED <<sessionVars, fileHandle, cache, idb, disk, perm, dbLoaded,
                   loading, savedHandle, error, isSaving, saveStatus, tasks,
                   started, microtasks>>

\* DatabaseService.init past its await, inside a Loader handler: on success
\* the handler goes on after its own await of init, on failure its catch runs.
InitResolves ==
    \E t \in tasks :
      /\ t.pc = "init"
      /\ sqlReady
      /\ microtasks # <<>>
      /\ t.id = Head(microtasks)
      /\ \E r \in InitOutcomes(db, t.data) :
           /\ db' = r.db
           /\ engines' = IF r.made THEN engines + 1 ELSE engines
           /\ IF r.outcome = "ok"
              THEN /\ Become(t, "inited", t.h, t.data)
                   /\ microtasks' = Append(Tail(microtasks), t.id)
                   /\ UNCHANGED <<error, loading>>
              ELSE /\ Caught(t)
                   /\ microtasks' = Tail(microtasks)
      /\ UNCHANGED <<fileHandle, cache, idb, disk, perm, dbLoaded, savedHandle,
                     isSaving, saveStatus, started, aside>>

\* saveToDisk as it would be if it looked only at this.db before going on:
\* with no handle it throws on createWritable of null.
saveToDiskStartsUnchecked(e, handle) ==
    IF e = NoDb
    THEN [outcome |-> "false"]
    ELSE IF handle = NoHandle
         THEN [outcome |-> "TypeError"]
         ELSE IF export(e).outcome = "ok"
              THEN [outcome |-> "await", data |-> export(e).ret.bytes, db |-> export(e).db]
              ELSE [outcome |-> export(e).outcome]

\* saveToDisk as it would be if it left this.db a new empty database once the
\* export is taken.
saveToDiskStartsAnew(e, handle) ==
    IF e = NoDb \/ handle = NoHandle
    THEN [outcome |-> "false"]
    ELSE IF export(e).outcome = "ok"
         THEN [outcome |-> "await", data |-> export(e).ret.bytes, db |-> EmptyEngine]
         ELSE [outcome |-> export(e).outcome]

\* DatabaseService.saveToDisk up to its first await: false when there is no
\* engine or no handle, else the export is taken and createWritable() called.
saveToDiskStarts(e, handle) ==
    IF e = NoDb \/ handle = NoHandle
    THEN [outcome |-> "false"]
    ELSE IF export(e).outcome = "ok"
         THEN [outcome |-> "await", data |-> export(e).ret.bytes, db |-> export(e).db]
         ELSE [outcome |-> export(e).outcome]

\* A Loader handler past its await of init(): setFileHandle, then up to the
\* handler's next await, or to onLoaded().
InitedContinues ==
    \E t \in tasks :
      /\ t.pc = "inited"
      /\ microtasks # <<>>
      /\ t.id = Head(microtasks)
      /\ microtasks' = Tail(microtasks)
      /\ fileHandle' = t.h
      /\ CASE t.op \in {"new", "file"} ->
                /\ Become(t, "clear", NoHandle, NoData)
                /\ UNCHANGED <<dbLoaded, error, loading>>
           [] t.op = "open" ->
                /\ Become(t, "saveHandle", t.h, t.data)
                /\ UNCHANGED <<dbLoaded, error, loading>>
           [] t.op = "saved" ->
                /\ Loaded(t)
                /\ UNCHANGED <<error, loading>>
           [] t.op = "create" ->
                LET s == saveToDiskStarts(db, t.h) IN
                  IF s.outcome = "await"
                  THEN /\ tasks' = (tasks \ {t}) \cup
                                  {[t EXCEPT !.pc = "writable", !.data = s.data,
                                             !.bound = fileHandle]}
                       /\ UNCHANGED <<dbLoaded, error, loading>>
                  ELSE /\ Caught(t)
                       /\ UNCHANGED dbLoaded
      /\ db' = IF t.op = "create" /\ saveToDiskStarts(db, t.h).outcome = "await"
               THEN saveToDiskStarts(db, t.h).db ELSE db
      /\ UNCHANGED <<engines, cache, idb, disk, perm, savedHandle, isSaving,
                     saveStatus, started, aside>>

\* Main.handleSaveDb up to its first await: with no handle saveToDisk returns
\* false and the export is downloaded; else the write-through is under way.
StartSaveDb ==
    /\ dbLoaded
    /\ ~isSaving
    /\ CanStart
    /\ LET s == saveToDiskStarts(db, fileHandle) IN
         CASE s.outcome = "await" ->
                /\ isSaving' = TRUE
                /\ Spawn("save", "writable", fileHandle, s.data)
                /\ db' = s.db
                /\ saveStatus' = "none"
           [] s.outcome = "false" /\ export(db).outcome = "ok" ->
                /\ saveStatus' = "downloaded"
                /\ started' = started + 1
                /\ db' = export(db).db
                /\ UNCHANGED <<isSaving, tasks>>
           [] OTHER ->
                /\ saveStatus' = "alert"
                /\ started' = started + 1
                /\ UNCHANGED <<db, isSaving, tasks>>
    /\ UNCHANGED <<engines, fileHandle, cache, idb, disk, perm, dbLoaded,
                   loading, savedHandle, error, microtasks, aside>>

\* saveToDisk's catch as it would be if it swallowed the error and returned
\* true.
SaveFailedSilently(t) ==
    IF t.op = "save"
    THEN /\ saveStatus' = "saved"
         /\ isSaving' = FALSE
         /\ Ended(t)
         /\ UNCHANGED <<error, loading>>
    ELSE /\ Become(t, "saveHandle", t.h, NoData)
         /\ UNCHANGED <<error, loading, saveStatus, isSaving>>

\* handleSaveDb as it would be if its catch fell back to the download.
SaveFailedDownloads(t) ==
    IF t.op = "save"
    THEN /\ saveStatus' = "downloaded"
         /\ isSaving' = FALSE
         /\ Ended(t)
         /\ UNCHANGED <<error, loading>>
    ELSE /\ Caught(t)
         /\ UNCHANGED <<saveStatus, isSaving>>

\* handleSaveDb as it would be without its finally: after a failed save
\* isSaving stays set.
SaveFailedStaysSaving(t) ==
    IF t.op = "save"
    THEN /\ saveStatus' = "alert"
         /\ Ended(t)
         /\ UNCHANGED <<error, loading, isSaving>>
    ELSE /\ Caught(t)
         /\ UNCHANGED <<saveStatus, isSaving>>

\* saveToDisk's catch rethrows; what its caller's catch does.
SaveFailed(t) ==
    IF t.op = "save"
    THEN /\ saveStatus' = "alert"
         /\ isSaving' = FALSE
         /\ Ended(t)
         /\ UNCHANGED <<error, loading>>
    ELSE /\ Caught(t)
         /\ UNCHANGED <<saveStatus, isSaving>>

\* fileHandle.createWritable() resolves: with a stream when readwrite is
\* granted, or granted now by the user; it rejects with NotAllowedError when
\* the permission is refused and with NotFoundError when the file is gone.
CreateWritableResolves ==
    \E t \in tasks :
      /\ Settled
      /\ t.pc = "writable"
      /\ \/ /\ disk[t.h] # Missing
            /\ perm[t.h] # "denied"
            /\ perm' = [perm EXCEPT ![t.h] = "granted"]
            /\ Become(t, "writing", t.h, t.data)
            /\ UNCHANGED <<disk, error, loading, saveStatus, isSaving>>
         \/ /\ perm[t.h] # "granted"
            /\ perm' = [perm EXCEPT ![t.h] = "denied"]
            /\ SaveFailed(t)
            /\ UNCHANGED disk
         \/ /\ disk' = [disk EXCEPT ![t.h] = Missing]
            /\ SaveFailed(t)
            /\ UNCHANGED perm
      /\ UNCHANGED <<db, engines, fileHandle, cache, idb, dbLoaded, savedHandle,
                     started, microtasks, aside>>

\* The write as it would be if saveToDisk took its export after
\* createWritable(): the file gets the rows of the moment of the write.
WriteResolvesLate ==
    \E t \in tasks :
      /\ Settled
      /\ t.pc = "writing"
      /\ \/ /\ disk' = [disk EXCEPT ![t.h] = export(db).ret.bytes]
            /\ IF t.op = "save"
               THEN /\ saveStatus' = "saved"
                    /\ isSaving' = FALSE
                    /\ Ended(t)
               ELSE /\ Become(t, "saveHandle", t.h, NoData)
                    /\ UNCHANGED <<saveStatus, isSaving>>
            /\ UNCHANGED <<error, loading>>
         \/ /\ SaveFailed(t)
            /\ UNCHANGED disk
      /\ UNCHANGED <<db, engines, fileHandle, cache, idb, perm, dbLoaded,
                     savedHandle, started, microtasks, aside>>

\* writable.write(data) and writable.close() resolve: the file holds the data
\* once close() is through; either may reject and the file stays as it was.
WriteResolves ==
    \E t \in tasks :
      /\ Settled
      /\ t.pc = "writing"
      /\ \/ /\ disk' = [disk EXCEPT ![t.h] = t.data]
            /\ IF t.op = "save"
               THEN /\ saveStatus' = "saved"
                    /\ isSaving' = FALSE
                    /\ Ended(t)
               ELSE /\ Become(t, "saveHandle", t.h, NoData)
                    /\ UNCHANGED <<saveStatus, isSaving>>
            /\ UNCHANGED <<error, loading>>
         \/ /\ SaveFailed(t)
            /\ UNCHANGED disk
      /\ UNCHANGED <<db, engines, fileHandle, cache, idb, perm, dbLoaded,
                     savedHandle, started, microtasks, aside>>

\* StorageService.saveHandle(handle) settles; it never does when IndexedDB
\* cannot be opened.  Resolved, the handler calls onLoaded(); rejected, with
\* no reason, the handler's catch throws on e.name and loading stays set.
SaveHandleSettles ==
    \E t \in tasks, s \in Stores(idb) :
      /\ Settled
      /\ FirstInLine(t)
      /\ t.pc = "saveHandle"
      /\ LET put == saveHandle(s, cache, t.h) IN
           /\ cache' = put.slot
           /\ CASE put.outcome = "pending" ->
                     /\ Hung(t)
                     /\ UNCHANGED <<dbLoaded, loading, error>>
                [] put.outcome = "resolved" ->
                     /\ Loaded(t)
                     /\ UNCHANGED <<loading, error>>
                [] put.outcome = "rejected" /\ put.ret = "undefined" ->
                     /\ Ended(t)
                     /\ UNCHANGED <<dbLoaded, loading, error>>
                [] OTHER ->
                     /\ Caught(t)
                     /\ UNCHANGED dbLoaded
      /\ UNCHANGED <<db, engines, fileHandle, idb, disk, perm,
                     savedHandle, isSaving, saveStatus, started, microtasks, aside>>

\* StorageService.clearHandle() settles.  handleNew and loadFile go on to
\* onLoaded() when it resolves, to their catch when it rejects; the call in
\* handleLoadSaved's catch is not awaited.
ClearHandleResolves ==
    \E t \in tasks, s \in Stores(idb) :
      /\ Settled
      /\ FirstInLine(t)
      /\ t.pc = "clear"
      /\ LET c == clearHandle(s, cache) IN
           /\ cache' = c.slot
           /\ IF c.outcome = "pending"
              THEN Hung(t) /\ UNCHANGED <<dbLoaded, loading, error>>
              ELSE IF t.op = "forget"
              THEN Ended(t) /\ UNCHANGED <<dbLoaded, loading, error>>
              ELSE IF c.outcome = "resolved"
                   THEN Loaded(t) /\ UNCHANGED <<loading, error>>
                   ELSE Caught(t) /\ UNCHANGED dbLoaded
      /\ UNCHANGED <<db, engines, fileHandle, idb, disk, perm,
                     savedHandle, isSaving, saveStatus, started, microtasks, aside>>

\* Dashboard's create-project form, once Main is shown.
MainCreateProject ==
    /\ dbLoaded
    /\ CanStart
    /\ db.kind = "ok"
    /\ HasRoom("projects")
    /\ db' = createProject(db, NewName, "", clock).db
    /\ started' = started + 1
    /\ UNCHANGED <<engines, fileHandle, cache, idb, disk, perm, dbLoaded,
                   loading, savedHandle, error, isSaving, saveStatus, tasks, microtasks, aside>>

Next ==
    \/ StartNew
    \/ StartCreateAtLocation
    \/ StartOpenLocation
    \/ StartLoadSaved
    \/ StartLoadFile
    \/ StartSaveDb
    \/ MainCreateProject
    \/ GetHandleResolves
    \/ PickerResolves
    \/ QueryResolves
    \/ RequestResolves
    \/ ReadResolves
    \/ ReaderLoads
    \/ SqlLoads
    \/ InitResolves
    \/ InitedContinues
    \/ CreateWritableResolves
    \/ WriteResolves
    \/ SaveHandleSettles
    \/ ClearHandleResolves

Init == InitSession /\ InitApp

Spec == Init /\ [][Next]_vars

\* What the browser owes the page: every promise of the platform that can
\* settle does (SQL.js loads or fails to, microtasks run, a picker or a
\* permission prompt is answered, file and IndexedDB requests end), as far as
\* the handlers of StorageService let it be seen.
Settles ==
    /\ WF_vars(GetHandleResolves)
    /\ WF_vars(PickerResolves)
    /\ WF_vars(QueryResolves)
    /\ WF_vars(RequestResolves)
    /\ WF_vars(ReadResolves)
    /\ WF_vars(ReaderLoads)
    /\ WF_vars(SqlLoads)
    /\ WF_vars(InitResolves)
    /\ WF_vars(InitedContinues)
    /\ WF_vars(CreateWritableResolves)
    /\ WF_vars(WriteResolves)
    /\ WF_vars(SaveHandleSettles)
    /\ WF_vars(ClearHandleResolves)

SpecLive == Init /\ [][Next]_vars /\ Settles

----------------------------------------------------------------------------
(* Claims about the database session, checked under SpecSession *)

\* A step that is a call of the engine-changing method op.
Called(op) == last'.op = op /\ calls' = calls + 1 /\ clock' = clock

\* C1 (cascade completeness): a deleteProject(p) of an existing project leaves
\* no bot of p (getBots(p) is empty) and no prompt of a bot that p had
\* (getPrompts of it is empty, getPrompt of each such prompt finds nothing);
\* a deleteBot(b) of an existing bot leaves no prompt of b.
C1_CascadeComplete ==
    [][db.kind = "ok" =>
       /\ \A p \in Ids(db.projects) :
            (Called("deleteProject") /\ db' = deleteProject(db, p).db)
            => /\ getBots(db', p).ret.rows = <<>>
               /\ \A b \in db.bots :
                    b.project_id = p =>
                      /\ getPrompts(db', b.id).ret.rows = <<>>
                      /\ \A q \in db.prompts :
                           q.bot_id = b.id => ~getPrompt(db', q.id).ret.found
       /\ \A b \in Ids(db.bots) :
            (Called("deleteBot") /\ db' = deleteBot(db, b).db)
            => getPrompts(db', b).ret.rows = <<>>
      ]_vars

\* C5 (init is all-or-nothing): an init that fails leaves this.db the very
\* engine it was, rows included, or null as it was, and creates no instance.
C5_InitAllOrNothing ==
    [][(Called("init") /\ last'.outcome # "ok") => (db' = db /\ engines' = engines)]_vars

\* C5's case: an init failed on a session that holds rows, which are still there.
C5_Witness ==
    /\ last.op = "init"
    /\ last.outcome = "EngineLoadError"
    /\ db.kind = "ok"
    /\ db.projects # {}

\* C6 (invalid image): init(bytes) on bytes that are no database image fails,
\* so this.db is never an engine over such bytes: it is null or a working
\* engine with the three tables.
C6_InvalidImageRejected == db.kind \in {"null", "ok"}

\* C7 (before init): with this.db still null, every call other than init ends
\* with the NotInitialized error (and this.db stays null).
C7_NotInitializedBeforeInit ==
    (db = NoDb /\ last.op \notin {"none", "init"}) => last.outcome = "NotInitialized"

\* C8 (one live engine): at most one engine instance is unreleased.
C8_OneLiveEngine == engines <= 1

----------------------------------------------------------------------------
(* Claims about the Loader, Main and the handle cache, checked under Spec *)

\* The step in which createWritable() of Main's save is refused permission,
\* the file being there.
Refused(t) ==
    /\ t \in tasks
    /\ t.op = "save"
    /\ t.pc = "writable"
    /\ disk[t.h] # Missing
    /\ perm[t.h] # "granted"
    /\ perm'[t.h] = "denied"
    /\ tasks' = tasks \ {t}
    /\ disk' = disk

SaveTasks == {t \in tasks : t.op = "save"}

\* C2: when the session is bound and write permission is refused, the save
\* ends as it does with no binding, in the download of the export, and not in
\* an error raised to the caller.
C2_RefusedSaveReturnsUnbound ==
    [][\A t \in SaveTasks : Refused(t) => saveStatus' = "downloaded"]_vars

\* C3: after a save in which permission is refused the session has no active
\* handle and the cached handle is cleared.
C3_RefusedSaveDropsHandle ==
    [][\A t \in SaveTasks : Refused(t) => (fileHandle' = NoHandle /\ cache' = NoHandle)]_vars

\* The saveToDisk calls between their createWritable() and their close().
InFlight == {t \in tasks : t.pc \in {"writable", "writing"}}

\* C4: at most one saveToDisk is in flight at any time.
C4_OneSaveInFlight == Cardinality(InFlight) <= 1

CreateTasks == {t \in tasks : t.op = "create"}

\* The step in which handleCreateAtLocation reaches onLoaded().
Created(t) ==
    /\ t.pc = "saveHandle"
    /\ tasks' = tasks \ {t}
    /\ ~dbLoaded
    /\ dbLoaded'

\* C9: when handleCreateAtLocation succeeds, its handle is the active handle,
\* the file behind it holds the export of the engine, and the cache holds the
\* handle.
C9_CreateBindsAndCaches ==
    [][\A t \in CreateTasks : Created(t) =>
          /\ fileHandle' = t.h
          /\ export(db').outcome = "ok"
          /\ disk'[t.h] = export(db').ret.bytes
          /\ cache' = t.h]_vars

\* The step in which the write-through of handleCreateAtLocation fails.
WriteThroughFailed(t) ==
    /\ t.pc \in {"writable", "writing"}
    /\ tasks' = tasks \ {t}

\* C10: when the write-through of handleCreateAtLocation fails, the active
\* handle is the one from before setFileHandle, and the engine and the cache
\* are untouched.
C10_FailedCreateLeavesNoTrace ==
    [][\A t \in CreateTasks : WriteThroughFailed(t) =>
          /\ fileHandle' = t.bound
          /\ db' = db
          /\ cache' = cache]_vars

----------------------------------------------------------------------------
(* Claims about the rows of the session, checked under SpecSession *)

\* The rows of the three tables.
Tables(e) == [projects |-> e.projects, bots |-> e.bots, prompts |-> e.prompts]

\* C15: createBot(projectId, ...) inserts a bot only when projectId is the id
\* of a project that exists at the call.
C15_BotNeedsProject ==
    [][(Called("createBot") /\ db.kind = "ok" /\ db'.kind = "ok")
       => \A b \in db'.bots \ db.bots : b.project_id \in Ids(db.projects)]_vars

WroteOnlyGiven(e, f, id, data) ==
    LET given == DOMAIN data \cap Updatable
    IN  /\ f.projects = e.projects
        /\ f.bots = e.bots
        /\ Ids(f.prompts) = Ids(e.prompts)
        /\ Cardinality(f.prompts) = Cardinality(e.prompts)
        /\ \A r \in e.prompts :
             IF r.id # id THEN r \in f.prompts
             ELSE /\ \A c \in given : Row(f.prompts, id)[c] = data[c]
                  /\ \A c \in DOMAIN r \ (given \cup {"updated_at"}) :
                       Row(f.prompts, id)[c] = r[c]

\* C17: updatePrompt(id, data) writes the columns data carries and updated_at
\* of prompt id, and nothing else: every other column of that prompt and
\* every other row is as before.
C17_UpdateWritesOnlyGiven ==
    [][(Called("updatePrompt") /\ db.kind = "ok")
       => \A id \in IdArgs, data \in Partials :
            db' = updatePrompt(db, id, data, clock).db
            => WroteOnlyGiven(db, db', id, data)]_vars

\* C17's case: a prompt renamed a second after it was made, its other columns
\* as createPrompt left them.
C17_Witness ==
    /\ last.op = "updatePrompt"
    /\ db.kind = "ok"
    /\ \E r \in db.prompts :
         /\ r.name = "x"
         /\ r.updated_at > r.created_at
         /\ r.system_prompt = ""
         /\ r.params = DefaultParams

\* The partial prompts that carry no updatable column.
Unfielded == {data \in Partials : DOMAIN data \cap Updatable = {}}

\* C18: updatePrompt(id, data) with no updatable column in data changes no
\* column of any row, updated_at of prompt id included.
C18_UpdateOfNothingIsNoOp ==
    \A id \in IdArgs, data \in Unfielded :
        LET r == updatePrompt(db, id, data, clock)
        IN  r.outcome = "ok" /\ r.db = db

\* C18's case: updatePrompt was called on a session whose prompts are all
\* older than the clock, and they still are.
C18_Witness ==
    /\ last.op = "updatePrompt"
    /\ last.outcome = "ok"
    /\ db.kind = "ok"
    /\ db.prompts # {}
    /\ \A r \in db.prompts :
         r.updated_at < clock /\ r.name = NewName /\ r.system_prompt = ""

\* The listings of engine e: getProjects, and getBots / getPrompts of each
\* parent id, as the sequences of rows they return.
Listings(e) ==
    {getProjects(e).ret.rows}
    \cup {getBots(e, p).ret.rows : p \in IdArgs}
    \cup {getPrompts(e, b).ret.rows : b \in IdArgs}

\* The rows that a step made or wrote to.
Touched(table) == db'[table] \ db[table]

Touching ==
    {"createProject", "updateProject", "createBot", "updateBot",
     "createPrompt", "updatePrompt", "duplicatePrompt"}

\* A create, update or duplicate call on a working engine.
Touch ==
    /\ last'.op \in Touching
    /\ calls' = calls + 1
    /\ db.kind = "ok"
    /\ db'.kind = "ok"

First(rows, r) == rows # <<>> /\ Head(rows) = r

\* C19 as stated: after a create or an update the listing of the entity's
\* parent has the entity just touched first.
C19_LastTouchedFirst ==
    [][Touch =>
         /\ \A r \in Touched("projects") : First(getProjects(db').ret.rows, r)
         /\ \A r \in Touched("bots") : First(getBots(db', r.project_id).ret.rows, r)
         /\ \A r \in Touched("prompts") : First(getPrompts(db', r.bot_id).ret.rows, r)]_vars

\* C19: every listing is in descending order of updated_at, so an entity
\* touched in a later second than another comes before it; entities touched
\* within one second have equal updated_at and their order says nothing of
\* which was touched last.
C19_DescendingByUpdatedAt ==
    db.kind = "ok" =>
        \A rows \in Listings(db) :
            \A i, j \in 1 .. Len(rows) :
                i < j => rows[i].updated_at >= rows[j].updated_at

\* C19's case: getProjects returned two projects, the one made a second later
\* first.
C19_Witness ==
    /\ last.op = "getProjects"
    /\ last.outcome = "ok"
    /\ Len(last.ret.rows) = 2
    /\ last.ret.rows[1].updated_at > last.ret.rows[2].updated_at
    /\ last.ret.rows[1].id > last.ret.rows[2].id

\* The rows a listing returned, as a set.
Listed(rows) == {rows[i] : i \in 1 .. Len(rows)}

\* C20: getProjects returns exactly the projects, getBots(p) exactly the bots
\* with project_id = p and getPrompts(b) exactly the prompts with bot_id = b,
\* each row once and none of another parent; a row just created is among them.
C20_ListingsExact ==
    db.kind = "ok" =>
        /\ Listed(getProjects(db).ret.rows) = db.projects
        /\ Len(getProjects(db).ret.rows) = Cardinality(db.projects)
        /\ \A p \in IdArgs :
             /\ Listed(getBots(db, p).ret.rows) = {b \in db.bots : b.project_id = p}
             /\ Len(getBots(db, p).ret.rows) = Cardinality({b \in db.bots : b.project_id = p})
        /\ \A b \in IdArgs :
             /\ Listed(getPrompts(db, b).ret.rows) = {q \in db.prompts : q.bot_id = b}
             /\ Len(getPrompts(db, b).ret.rows) = Cardinality({q \in db.prompts : q.bot_id = b})

\* C20's case: getBots(p) returned one bot, the bot of p just created, while
\* another project has a bot too.
C20_Witness ==
    /\ last.op = "getBots"
    /\ last.outcome = "ok"
    /\ Len(last.ret.rows) = 1
    /\ db.kind = "ok"
    /\ Cardinality(db.bots) = 2
    /\ last.ret.rows[1].id = db.seq.bots
    /\ \E b \in db.bots : b.project_id # last.ret.rows[1].project_id

----------------------------------------------------------------------------
(* Claims about opening and saving, checked under Spec *)

OpenTasks == {t \in tasks : t.op \in {"open", "saved"}}

\* The step in which handleOpenLocation or handleLoadSaved, having read a
\* database image, reaches onLoaded().
Opened(t) ==
    /\ t.pc \in {"inited", "saveHandle"}
    /\ t.data.fmt = "sqlite"
    /\ tasks' = tasks \ {t}
    /\ ~dbLoaded
    /\ dbLoaded'

\* C11: handleOpenLocation and handleLoadSaved read the file and init from its
\* bytes without ever writing to it, and when they are through the session
\* holds the rows of the image read and the file still holds that image.
C11_OpenReadsAndKeeps ==
    [][\A t \in OpenTasks :
          /\ t.pc \notin {"writable", "writing"}
          /\ Opened(t) =>
               /\ db'.kind = "ok"
               /\ Tables(db') = Tables(OpenImage(t.data))
               /\ disk'[t.h] = t.data]_vars

\* The step in which Main's saveToDisk returns true.
WrittenToDisk(t) ==
    /\ t.pc = "writing"
    /\ tasks' = tasks \ {t}
    /\ saveStatus' = "saved"

\* C12: when Main's save of a session with a handle and permission ends with
\* 'Saved to disk!', the file holds bytes from which a fresh session gets the
\* rows, in every table, that the saving session has had since its export.
C12_SavedImageReopens ==
    [][\A t \in SaveTasks :
          (WrittenToDisk(t) /\ db.kind = "ok" /\ export(db).ret.bytes = t.data)
          => \A o \in OpenOutcomes(disk'[t.h]) :
                o.ok /\ Tables(o.engine) = Tables(db)]_vars

\* C12's case: a session opened from a file, given a second project and saved:
\* the file holds its export.
C12_Witness ==
    /\ saveStatus = "saved"
    /\ fileHandle # NoHandle
    /\ db.kind = "ok"
    /\ Cardinality(db.projects) = 2
    /\ disk[fileHandle] = export(db).ret.bytes

\* The step in which a write-through ends without the data in the file.
NotWritten(t) ==
    /\ t.pc = "writing"
    /\ tasks' = tasks \ {t}
    /\ disk'[t.h] # t.data

C14_PermissionBeforeExport ==
    \A t \in tasks : t.pc = "writable" => perm[t.h] = "granted"

----------------------------------------------------------------------------
(* Claims about prompts, fetches and timestamps, checked under SpecSession *)

\* C21: createPrompt(botId, name) returns the id of the row it inserted:
\* getPrompt of it is a row that was not there before, with the given bot and
\* name, empty system, user and dev prompts and the default params; on a
\* fresh engine the id is 1.
C21_CreatePromptReturnsItsRow ==
    [][(Called("createPrompt") /\ db.kind = "ok" /\ last'.outcome = "ok")
       => LET got == getPrompt(db', last'.ret.id).ret
          IN  /\ got.found
              /\ got.row \notin db.prompts
              /\ db'.prompts = db.prompts \cup {got.row}
              /\ got.row.id = last'.ret.id
              /\ \E botId \in IdArgs :
                    /\ db' = createPrompt(db, botId, NewName, clock).db
                    /\ got.row.bot_id = botId
              /\ got.row.name = NewName
              /\ got.row.system_prompt = ""
              /\ got.row.user_prompt = ""
              /\ got.row.dev_prompt = ""
              /\ got.row.params =
                    "{\n  \"temperature\": 0.7,\n  \"maxOutputTokens\": 1024\n}"
              /\ (db = EmptyEngine => last'.ret.id = 1)]_vars

\* C21's case: the second createPrompt of a session returned 2 and both
\* prompts are there.
C21_Witness ==
    /\ last.op = "createPrompt"
    /\ last.outcome = "ok"
    /\ last.ret.id = 2
    /\ db.kind = "ok"
    /\ Ids(db.prompts) = {1, 2}

\* C22: the id createPrompt returns is larger than every prompt id the engine
\* has assigned before, the ids of deleted prompts and of duplicates included.
C22_PromptIdsIncrease ==
    /\ [](db.kind = "ok" => \A r \in db.prompts : r.id <= db.seq.prompts)
    /\ [][(Called("createPrompt") /\ db.kind = "ok" /\ last'.outcome = "ok")
          => /\ last'.ret.id > db.seq.prompts
             /\ \A r \in db.prompts : last'.ret.id > r.id
             /\ db'.seq.prompts = last'.ret.id]_vars

\* C22's case: createPrompt returned 2 after prompt 1 was deleted.
C22_Witness ==
    /\ last.op = "createPrompt"
    /\ last.outcome = "ok"
    /\ last.ret.id = 2
    /\ db.kind = "ok"
    /\ Ids(db.prompts) = {2}

\* C23: duplicatePrompt(id) of a prompt that is there adds one row and leaves
\* every other row as it was: the new row has an id no prompt had, the bot of
\* the original, its name followed by " (Copy)", and its system, user and dev
\* prompts and params.
C23_DuplicateCopies ==
    /\ [](db.kind = "ok" =>
            \A p \in db.prompts :
                LET r == duplicatePrompt(db, p.id, clock)
                    new == r.db.prompts \ db.prompts
                IN  /\ r.outcome = "ok"
                    /\ db.prompts \subseteq r.db.prompts
                    /\ r.db.projects = db.projects
                    /\ r.db.bots = db.bots
                    /\ Cardinality(new) = 1
                    /\ \A n \in new :
                          /\ n.id \notin Ids(db.prompts)
                          /\ n.bot_id = p.bot_id
                          /\ n.name = p.name \o " (Copy)"
                          /\ n.system_prompt = p.system_prompt
                          /\ n.user_prompt = p.user_prompt
                          /\ n.dev_prompt = p.dev_prompt
                          /\ n.params = p.params)
    /\ [][(Called("duplicatePrompt") /\ db.kind = "ok" /\ db' # db)
          => \E p \in db.prompts : db' = duplicatePrompt(db, p.id, clock).db]_vars

\* C23's case: a prompt whose system prompt had been edited was duplicated.
C23_Witness ==
    /\ last.op = "duplicatePrompt"
    /\ last.outcome = "ok"
    /\ db.kind = "ok"
    /\ \E p, n \in db.prompts :
          /\ n.id # p.id
          /\ n.name = p.name \o " (Copy)"
          /\ p.system_prompt = "x"
          /\ n.system_prompt = "x"

\* C24: duplicatePrompt(id) of an id no prompt has returns normally and
\* leaves the database as it was.
C24_DuplicateOfNothing ==
    /\ [](db.kind = "ok" =>
            \A id \in IdArgs \ Ids(db.prompts) :
                LET r == duplicatePrompt(db, id, clock)
                IN  r.outcome = "ok" /\ r.db = db)
    /\ [][(Called("duplicatePrompt") /\ db.kind = "ok" /\ db.prompts = {})
          => (last'.outcome = "ok" /\ db' = db)]_vars

\* C24's case: duplicatePrompt was called with projects but no prompt in the
\* database.
C24_Witness ==
    /\ last.op = "duplicatePrompt"
    /\ last.outcome = "ok"
    /\ db.kind = "ok"
    /\ db.projects # {}
    /\ db.prompts = {}

\* C25: on a working engine getProject, getBot and getPrompt return normally
\* for every id: the row with that id when the table has one, and the
\* not-found result otherwise.
C25_FetchFindsOrNotFound ==
    /\ db.kind = "ok" =>
          \A id \in IdArgs :
              \A got \in {[r |-> getProject(db, id), t |-> db.projects],
                          [r |-> getBot(db, id), t |-> db.bots],
                          [r |-> getPrompt(db, id), t |-> db.prompts]} :
                  /\ got.r.outcome = "ok"
                  /\ got.r.db = db
                  /\ got.r.ret.found <=> (\E row \in got.t : row.id = id)
                  /\ got.r.ret.found =>
                        (got.r.ret.row \in got.t /\ got.r.ret.row.id = id)
    /\ (db.kind = "ok" /\ last.op \in {"getProject", "getBot", "getPrompt"})
          => last.outcome = "ok"

\* C25's case: getPrompt returned not-found with a prompt in the database.
C25_Witness ==
    /\ last.op = "getPrompt"
    /\ last.outcome = "ok"
    /\ ~last.ret.found
    /\ db.kind = "ok"
    /\ db.prompts # {}

\* C26: every row a create, an update or a duplicate writes has the engine's
\* clock of that moment as updated_at, whatever updated_at the caller passed.
C26_StampedByEngine ==
    [][Touch =>
         \A table \in {"projects", "bots", "prompts"} :
             \A r \in Touched(table) :
                 r.updated_at = clock /\ r.updated_at # ClientStamp]_vars

\* C26's case: a prompt was renamed in a later second than it was created.
C26_Witness ==
    /\ last.op = "updatePrompt"
    /\ last.outcome = "ok"
    /\ db.kind = "ok"
    /\ \E r \in db.prompts :
          r.name = "x" /\ r.created_at < clock /\ r.updated_at = clock

----------------------------------------------------------------------------
(* Claims about the handle cache and unbound sessions, checked under Spec *)

\* The step in which handleNew or loadFile calls onLoaded().
StartsUnbound(t) ==
    /\ t \in tasks
    /\ t.op \in {"new", "file"}
    /\ t.pc = "clear"
    /\ tasks' = tasks \ {t}
    /\ idb = "ok"
    /\ dbLoaded'

\* C27: when handleNew or loadFile calls onLoaded(), the session has no file
\* handle and the handle cache remembers none.
C27_UnboundSessionForgets ==
    [][\A t \in tasks :
         StartsUnbound(t) => (fileHandle' = NoHandle /\ cache' = NoHandle)]_vars

\* C28: getHandle() ends with a value whatever IndexedDB is to the page: the
\* handle remembered when the store works, and nothing in every other case.
C28_GetNeverRaises ==
    \A s \in StoreStates :
        LET got == getHandle(s, cache)
        IN  /\ got.outcome = "resolved"
            /\ got.ret = IF s = "ok" THEN cache ELSE NoHandle

\* C29: the cache is one slot.  On a working store saveHandle(h) resolves and
\* getHandle() then gives h, whatever was remembered before; clearHandle()
\* resolves and getHandle() then gives nothing; a saveHandle or clearHandle
\* that does not resolve leaves the slot as it was; and the slot changes in
\* no other way.
C29_SingleSlot ==
    /\ [](cache \in Handles \cup {NoHandle})
    /\ [](\A h \in Handles :
            LET put == saveHandle("ok", cache, h)
            IN  /\ put.outcome = "resolved"
                /\ getHandle("ok", put.slot).ret = h
                /\ getHandle("ok", clearHandle("ok", put.slot).slot).ret = NoHandle
                /\ \A h2 \in Handles :
                      getHandle("ok", saveHandle("ok", put.slot, h2).slot).ret = h2)
    /\ [](LET c == clearHandle("ok", cache)
          IN  c.outcome = "resolved" /\ getHandle("ok", c.slot).ret = NoHandle)
    /\ [](\A s \in StoreStates \ {"ok"} :
            /\ clearHandle(s, cache).slot = cache
            /\ \A h \in Handles : saveHandle(s, cache, h).slot = cache)
    /\ [][cache' # cache =>
            \E t \in tasks \ tasks' :
                \/ t.pc = "saveHandle" /\ cache' = t.h
                \/ t.pc = "clear" /\ cache' = NoHandle]_vars

\* C29's case: "h1" was remembered when the page loaded, and a saveHandle("h2")
\* has replaced it.
C29_Witness ==
    /\ idb = "ok"
    /\ savedHandle = "h1"
    /\ cache = "h2"

\* C30: with no file handle saveToDisk() returns false before exporting or
\* writing: Main's save starts no write, no file changes, and the export
\* handleSaveDb makes itself is downloaded.
C30_UnboundSaveReturnsFalse ==
    /\ [](saveToDiskStarts(db, NoHandle) = [outcome |-> "false"])
    /\ [][(dbLoaded /\ ~isSaving /\ started' = started + 1
             /\ db' \in {db, Reopened(db)} /\ fileHandle = NoHandle)
          => /\ tasks' = tasks
             /\ disk' = disk
             /\ ~isSaving'
             /\ saveStatus' = "downloaded"]_vars

\* C30's case: Main's save was used in a session without a file handle.
C30_Witness ==
    /\ dbLoaded
    /\ fileHandle = NoHandle
    /\ saveStatus = "downloaded"
    /\ tasks = {}

----------------------------------------------------------------------------
(* Claims about what saving and exporting leave alone *)

\* Engine f has the rows and the sequences of engine e.
SameRows(e, f) ==
    IF e.kind = "ok"
    THEN f.kind = "ok" /\ Tables(f) = Tables(e) /\ f.seq = e.seq
    ELSE f = e

\* A step of saveToDisk(): its start in Main's save, its start in
\* handleCreateAtLocation, or createWritable(), write() or close() settling.
SaveToDiskStep ==
    \/ ~isSaving /\ isSaving'
    \/ \E t \in tasks \ tasks' :
          \/ t.pc \in {"writable", "writing"}
          \/ t.pc = "inited" /\ t.op = "create"

\* C31: saveToDisk() changes no row of the session, whether it ends with the
\* file written, with false, with the permission refused or with a failed
\* write.
C31_SaveKeepsRows ==
    /\ [](\A h \in Handles \cup {NoHandle} :
            LET s == saveToDiskStarts(db, h)
            IN  s.outcome = "await" => SameRows(db, s.db))
    /\ [][SaveToDiskStep => SameRows(db, db')]_vars

\* C31's case: a save of a session with two projects ended with the
\* permission refused, and the two projects are there.
C31_Witness ==
    /\ saveStatus = "alert"
    /\ ~isSaving
    /\ fileHandle # NoHandle
    /\ perm[fileHandle] = "denied"
    /\ db.kind = "ok"
    /\ Cardinality(db.projects) = 2

\* The calls of DatabaseService on engine e, with the arguments of the model.
CallsOn(e, now) ==
    {getProjects(e), export(e), createProject(e, NewName, "", now)}
    \cup {getProject(e, id) : id \in IdArgs}
    \cup {updateProject(e, id, "x", "", now) : id \in IdArgs}
    \cup {deleteProject(e, id) : id \in IdArgs}
    \cup {getBots(e, id) : id \in IdArgs}
    \cup {getBot(e, id) : id \in IdArgs}
    \cup {createBot(e, id, NewName, "", now) : id \in IdArgs}
    \cup {updateBot(e, id, "x", "", now) : id \in IdArgs}
    \cup {deleteBot(e, id) : id \in IdArgs}
    \cup {getPrompts(e, id) : id \in IdArgs}
    \cup {getPrompt(e, id) : id \in IdArgs}
    \cup {createPrompt(e, id, NewName, now) : id \in IdArgs}
    \cup {updatePrompt(e, id, data, now) : id \in IdArgs, data \in Partials}
    \cup {deletePrompt(e, id) : id \in IdArgs}
    \cup {duplicatePrompt(e, id, now) : id \in IdArgs}

\* What a caller sees of a call, and the rows it leaves.
Seen(r) ==
    [outcome |-> r.outcome, ret |-> r.ret,
     rows |-> IF r.db.kind = "ok" THEN <<Tables(r.db), r.db.seq>> ELSE <<r.db>>]

\* C32: export() leaves the rows of every table as they were, and every call
\* made after it ends, returns and leaves the rows as it would have without
\* the export.
C32_ExportHasNoEffect ==
    [][(last'.op = "export" /\ db.kind # "null") =>
          /\ last'.outcome = "ok"
          /\ SameRows(db, db')
          /\ \/ db' = db
             \/ {Seen(r) : r \in CallsOn(db', clock')}
                   = {Seen(r) : r \in CallsOn(db, clock')}]_vars

\* C32's case: export() was called after a createPrompt.
C32_Witness ==
    /\ last.op = "export"
    /\ last.outcome = "ok"
    /\ db.kind = "ok"
    /\ db.prompts # {}
    /\ db.rowid = 0

----------------------------------------------------------------------------
(* Claims about handlers coming to an end, checked under SpecLive *)

\* C33: a save of Main that is under way comes to an end and isSaving is
\* reset; it ends with 'Saved to disk!' and the data in the file, or with the
\* alert and the file as it was, and until then its task goes on from
\* createWritable() to write() and close().
C33_SaveEnds ==
    /\ isSaving ~> ~isSaving
    /\ (SaveTasks # {}) ~> (SaveTasks = {})
    /\ [][\A t \in SaveTasks :
            t \notin tasks' =>
               \/ /\ t.pc = "writable"
                  /\ [t EXCEPT !.pc = "writing"] \in tasks'
                  /\ isSaving'
               \/ /\ t.pc = "writing"
                  /\ saveStatus' = "saved"
                  /\ disk'[t.h] = t.data
                  /\ ~isSaving'
               \/ /\ saveStatus' = "alert"
                  /\ disk'[t.h] \in {disk[t.h], Missing}
                  /\ ~isSaving']_vars

\* C33's case: the save of a session opened from a file has ended with its
\* data in the file.
C33_Witness ==
    /\ ~isSaving
    /\ SaveTasks = {}
    /\ saveStatus = "saved"
    /\ fileHandle # NoHandle
    /\ perm[fileHandle] = "granted"
    /\ db.kind = "ok"
    /\ Cardinality(db.projects) = 1
    /\ disk[fileHandle] = OneProject

----------------------------------------------------------------------------
(* Claims about Main's save and the Loader's handlers, checked under Spec *)

\* The step in which Main.handleSaveDb starts.
SaveStarts ==
    /\ dbLoaded
    /\ ~isSaving
    /\ started' = started + 1
    /\ SameRows(db, db')

\* C34: a save of a session with a file handle writes the export through that
\* handle and downloads nothing; a save of a session without one writes
\* nothing and downloads the export; and a write-through that fails ends in
\* the alert, with neither 'Saved to disk!' nor a download.
C34_WriteThroughOrDownload ==
    [][/\ SaveStarts =>
            IF db # NoDb /\ fileHandle # NoHandle
            THEN /\ \E t \in tasks' \ tasks :
                       t.op = "save" /\ t.h = fileHandle /\ t.data = Export(db)
                 /\ isSaving'
                 /\ saveStatus' = "none"
            ELSE /\ tasks' = tasks
                 /\ disk' = disk
                 /\ saveStatus' = "downloaded"
       /\ \A t \in SaveTasks :
            (t \notin tasks' /\ ~isSaving') =>
                /\ saveStatus' \in {"saved", "alert"}
                /\ saveStatus' = "saved" => (t.pc = "writing" /\ disk'[t.h] = t.data)
                /\ saveStatus' = "alert" => disk'[t.h] \in {disk[t.h], Missing}]_vars

\* C34's case: a write-through is under way, the status cleared and write()
\* pending.
C34_Witness ==
    /\ isSaving
    /\ saveStatus = "none"
    /\ fileHandle # NoHandle
    /\ \E t \in SaveTasks : t.pc = "writing" /\ t.h = fileHandle

\* The step in which handleLoadSaved finds its handle unusable: the
\* permission is refused, or the file is not there.
FoundUnusable(t) ==
    /\ t.op = "saved"
    /\ t.pc \in {"request", "read"}
    /\ \A u \in tasks' : u.id # t.id

\* C35: when handleLoadSaved finds the remembered handle unusable, the session
\* is left as it was, neither initialized from the file nor bound to the
\* handle by this handler; the Loader forgets the handle and calls
\* clearHandle(), after which the cache is empty; and the Loader shows the
\* error with loading reset, its buttons enabled again.
C35_UnusableHandleIsForgotten ==
    [][/\ \A t \in tasks :
            FoundUnusable(t) =>
                /\ db' = db
                /\ fileHandle' = fileHandle
                /\ dbLoaded' = dbLoaded
                /\ savedHandle' = NoHandle
                /\ error'
                /\ ~loading'
                /\ \E f \in tasks' \ tasks : f.op = "forget" /\ f.pc = "clear"
       /\ \A f \in tasks :
            (f.op = "forget" /\ tasks' = tasks \ {f}) => cache' = NoHandle]_vars

\* C35's case: the permission for the remembered handle was refused, and the
\* Loader is back with its buttons, nothing remembered and no session.
C35_Witness ==
    /\ perm["h1"] = "denied"
    /\ error
    /\ ~loading
    /\ ~dbLoaded
    /\ savedHandle = NoHandle
    /\ cache = NoHandle
    /\ fileHandle = NoHandle
    /\ db = NoDb
    /\ tasks = {}
    /\ started = 1

\* C38: the bytes a write-through puts into the file are the export taken
\* when saveToDisk started, whatever was changed in the session while the
\* write was pending: changes made since are in memory only.
C38_WritesSnapshot ==
    [][/\ \A t \in tasks' \ tasks :
            (t.pc = "writable" /\ db.kind = "ok") =>
                /\ t.data = Export(db)
                /\ \A u \in tasks : u.id # t.id \/ u.pc = "inited"
       /\ \A t \in tasks :
            (t.pc = "writable" /\ t \notin tasks') =>
                \/ [t EXCEPT !.pc = "writing"] \in tasks'
                \/ \A u \in tasks' : u.id # t.id
       /\ \A t \in SaveTasks :
            WrittenToDisk(t) =>
                /\ disk'[t.h] = t.data
                /\ db' = db
                /\ (db.kind = "ok" /\ Export(db) # t.data) => disk'[t.h] # Export(db')]_vars

\* C38's case: a project was added while the save of a session opened from a
\* file was pending; the save ended with 'Saved to disk!', the file holds the
\* one project of before and the session two.
C38_Witness ==
    /\ saveStatus = "saved"
    /\ ~isSaving
    /\ fileHandle = "h1"
    /\ db.kind = "ok"
    /\ Cardinality(db.projects) = 2
    /\ disk["h1"] = OneProject

\* C39: when a handler of the Loader calls onLoaded(), the session's file
\* handle and the handle in the cache are the same, or there is neither.
C39_BindingAndCacheAgree ==
    [][(~dbLoaded /\ dbLoaded') => fileHandle' = cache']_vars

----------------------------------------------------------------------------
(* Further claims about the rows of the session, checked under SpecSession *)

\* C36: every bot's project_id is the id of a project in the database and
\* every prompt's bot_id the id of a bot in it.
C36_NoOrphans ==
    db.kind = "ok" =>
        /\ \A b \in db.bots : b.project_id \in Ids(db.projects)
        /\ \A p \in db.prompts : p.bot_id \in Ids(db.bots)

\* The id, the parent and the creation time of the rows of the three tables.
Keys(e) ==
    [projects |-> {<<r.id, r.created_at>> : r \in e.projects},
     bots |-> {<<r.id, r.project_id, r.created_at>> : r \in e.bots},
     prompts |-> {<<r.id, r.bot_id, r.created_at>> : r \in e.prompts}]

\* C37: updateProject, updateBot and updatePrompt leave the id, the parent id
\* and created_at of every row as they were, whatever the data passed carries.
C37_UpdatesKeepIdentity ==
    [][(/\ last'.op \in {"updateProject", "updateBot", "updatePrompt"}
        /\ calls' = calls + 1
        /\ db.kind = "ok")
       => /\ db'.kind = "ok"
          /\ Keys(db') = Keys(db)
          /\ \A table \in {"projects", "bots", "prompts"} :
                Cardinality(db'[table]) = Cardinality(db[table])]_vars

\* C37's case: a bot of project 1 was renamed in a later second than it was
\* created.
C37_Witness ==
    /\ last.op = "updateBot"
    /\ last.outcome = "ok"
    /\ db.kind = "ok"
    /\ \E b \in db.bots :
          b.name = "x" /\ b.project_id = 1 /\ b.created_at < b.updated_at

----------------------------------------------------------------------------
(* Further claims about handlers coming to an end, checked under SpecLive *)

\* C40: whenever the Loader is loading, it later reports the session loaded
\* or has loading reset.
C40_LoadingEnds == loading ~> (dbLoaded \/ ~loading)

====
